---- MODULE Spec2Model ----
(***************************************************************************)
(* DPLL SAT solver of andresgr96/sat-solver: class SatSolver of            *)
(* src/solver/og_solver.py (the variant with the metrics record and the    *)
(* strategies 1..5) and the heuristics of src/solver/heuristics.py.        *)
(*                                                                         *)
(* A process constructs solvers and makes top-level solve calls one after  *)
(* the other.  The recursion of solve is an explicit stack of frames; one  *)
(* action is one iteration of the cascade loop, one decision, one return   *)
(* or one backtrack.  The default value of solve's parameter `assignments` *)
(* is one list object owned by the function: it is the variable dflt.      *)
(***************************************************************************)
EXTENDS Integers, Sequences, FiniteSets, TLC

\* ---------------------------------------------------------------- bounds
NumVars == 2
MaxClauseLen == 2
MaxClauses == 2
MaxCalls == 2
\* formulas handed to get_unit_clauses on its own
CascadeVars == 3
CascadeClauses == 3

\* ------------------------------------------------------ program constants
MaxStrategy == 5
DriverMaxStrategy == 3

VARIABLES
  pc,          \* "new" | "ready" | "running" | "returned" | "raised" | "exited"
  strategy,    \* self.strategy of the current SatSolver object (0: none yet)
  metrics,     \* self.metrics of the current SatSolver object
  dflt,        \* the list object that is the default of solve's `assignments`
  stack,       \* frames of the running solve calls, the innermost last
  ret,         \* value a finished inner call hands to its caller
  input,       \* formula of the latest top-level call
  inputStrategy, \* strategy of the solver the latest top-level call ran on
  result,      \* literal sequence the latest top-level call returned
  calls,       \* number of top-level solve calls made by the process
  callMetrics, \* history: the events counted during the latest top-level call
  prev,        \* history: result of the call before, when it had the same formula and strategy
  error,       \* exception that ended the process ("" when none)
  bcpIn,       \* propagate_unit harness: the arguments
  bcpOut,      \* propagate_unit harness: the value returned
  out,         \* driver: the integers it wrote, in order
  report,      \* driver: "SAT" | "UNSAT" ("" before it reported)
  ucIn,        \* get_unit_clauses harness: the argument
  ucOut,       \* get_unit_clauses harness: the value returned
  alt,         \* get_unit_clauses harness: the same cascade, units taken in any order
  jwIn,        \* jersolow_sided harness: the argument
  jwOut        \* jersolow_sided harness: the literal returned or the exception

vars == <<pc, strategy, metrics, dflt, stack, ret, input, inputStrategy, result,
          calls, callMetrics, prev, error, bcpIn, bcpOut, out, report,
          ucIn, ucOut, alt, jwIn, jwOut>>

\* --------------------------------------------------------------- formulas
Lits == {l \in (-NumVars)..NumVars : l # 0}

Abs(l) == IF l < 0 THEN -l ELSE l

Distinct(s) == \A i, j \in 1..Len(s) : i # j => s[i] # s[j]

SeqsUpTo(S, n) == UNION {[1..k -> S] : k \in 0..n}

\* a clause: a sequence of distinct nonzero literals (zero literals allowed)
Clauses == {c \in SeqsUpTo(Lits, MaxClauseLen) : Distinct(c)}

Formulas == SeqsUpTo(Clauses, MaxClauses)

Contains(clause, l) == \E i \in 1..Len(clause) : clause[i] = l

RemoveLit(clause, l) == SelectSeq(clause, LAMBDA x : x # l)

\* ------------------------------------------------------------------- BCP
NoConflict(cnf) == [conflict |-> FALSE, cnf |-> cnf]
CONFLICT == [conflict |-> TRUE, cnf |-> <<>>]

RECURSIVE PropagateFrom(_, _, _, _)
PropagateFrom(cnf, unit, i, new_cnf) ==
  IF i > Len(cnf) THEN NoConflict(new_cnf)
  ELSE LET clause == cnf[i] IN
       IF Contains(clause, unit) THEN PropagateFrom(cnf, unit, i + 1, new_cnf)
       ELSE IF Contains(clause, -unit)
            THEN LET new_clause == RemoveLit(clause, -unit) IN
                 IF new_clause = <<>> THEN CONFLICT
                 ELSE PropagateFrom(cnf, unit, i + 1, Append(new_cnf, new_clause))
            ELSE PropagateFrom(cnf, unit, i + 1, Append(new_cnf, clause))

\* a clause containing -unit is taken as satisfied, like one containing unit
propagate_unit_dropsNegated(cnf, unit) ==
  NoConflict(SelectSeq(cnf, LAMBDA clause :
                         ~Contains(clause, unit) /\ ~Contains(clause, -unit)))

\* the emptied clause is kept in the formula and no conflict is signalled
propagate_unit_keepsEmpty(cnf, unit) ==
  LET kept == SelectSeq(cnf, LAMBDA clause : ~Contains(clause, unit))
  IN NoConflict([i \in 1..Len(kept) |-> RemoveLit(kept[i], -unit)])

propagate_unit(cnf, unit) == PropagateFrom(cnf, unit, 1, <<>>)

\* UnitClauses that looks at the first clause only
UnitClauses_firstOnly(cnf) ==
  IF cnf = <<>> THEN <<>> ELSE SelectSeq(<<cnf[1]>>, LAMBDA clause : Len(clause) = 1)

\* [clause for clause in cnf if len(clause) == 1]
UnitClauses(cnf) == SelectSeq(cnf, LAMBDA clause : Len(clause) = 1)

\* the pair get_unit_clauses returns; (-1, []) is CascadeConflict
Cascaded(cnf, assignments) == [conflict |-> FALSE, cnf |-> cnf, asg |-> assignments]
CascadeConflict == [conflict |-> TRUE, cnf |-> <<>>, asg |-> <<>>]

\* the while loop of get_unit_clauses, from the state (cnf, assignments)
RECURSIVE CascadeFrom(_, _)
CascadeFrom(cnf, assignments) ==
  IF UnitClauses(cnf) = <<>> THEN Cascaded(cnf, assignments)
  ELSE LET unit == UnitClauses(cnf)[1][1]
           r == propagate_unit(cnf, unit)
       IN IF r.conflict THEN CascadeConflict
          ELSE IF r.cnf = <<>> THEN Cascaded(r.cnf, Append(assignments, unit))
          ELSE CascadeFrom(r.cnf, Append(assignments, unit))

\* get_unit_clauses with `if` for `while`: one unit clause resolved
get_unit_clauses_once(cnf) ==
  IF UnitClauses(cnf) = <<>> THEN Cascaded(cnf, <<>>)
  ELSE LET unit == UnitClauses(cnf)[1][1]
           r == propagate_unit(cnf, unit)
       IN IF r.conflict THEN CascadeConflict
          ELSE Cascaded(r.cnf, <<unit>>)

get_unit_clauses(cnf) == CascadeFrom(cnf, <<>>)

\* how many literals the loop forces, the one that conflicts included
RECURSIVE ForcedCount(_)
ForcedCount(cnf) ==
  IF UnitClauses(cnf) = <<>> THEN 0
  ELSE LET r == propagate_unit(cnf, UnitClauses(cnf)[1][1])
       IN IF r.conflict THEN 1 ELSE 1 + ForcedCount(r.cnf)

\* --------------------------------------------------------- heuristics
\* A dict is modelled as the sequence of its items in insertion order.
Get(d, k, default) ==
  IF \E i \in 1..Len(d) : d[i].k = k
  THEN d[CHOOSE i \in 1..Len(d) : d[i].k = k].v
  ELSE default

\* d[k] += w on a defaultdict(int)
Bump(d, k, w) ==
  IF \E i \in 1..Len(d) : d[i].k = k
  THEN [i \in 1..Len(d) |-> IF d[i].k = k THEN [k |-> k, v |-> d[i].v + w] ELSE d[i]]
  ELSE Append(d, [k |-> k, v |-> w])

RECURSIVE BumpSeq(_, _, _, _)
BumpSeq(d, ks, j, w) ==
  IF j > Len(ks) THEN d ELSE BumpSeq(Bump(d, ks[j], w), ks, j + 1, w)

Keys(d) == [i \in 1..Len(d) |-> d[i].k]

Returned(l) == [raised |-> FALSE, lit |-> l, exc |-> ""]
Raised(e) == [raised |-> TRUE, lit |-> 0, exc |-> e]

\* max(ks, key=...), vs[i] the key value of ks[i]: the first element of ks with
\* the largest key value; ValueError when ks is empty
MaxFirst(ks, vs) ==
  IF ks = <<>> THEN Raised("ValueError")
  ELSE Returned(ks[CHOOSE i \in 1..Len(ks) :
                     /\ \A j \in 1..Len(ks) : vs[j] <= vs[i]
                     /\ \A j \in 1..(i - 1) : vs[j] < vs[i]])

\* max(d, key=d.get)
MaxKey(d) == MaxFirst(Keys(d), [i \in 1..Len(d) |-> d[i].v])

RECURSIVE Pow2(_)
Pow2(n) == IF n <= 0 THEN 1 ELSE 2 * Pow2(n - 1)

RECURSIVE LongestFrom(_, _)
LongestFrom(cnf, i) ==
  IF i > Len(cnf) THEN 0
  ELSE LET m == LongestFrom(cnf, i + 1) IN IF Len(cnf[i]) > m THEN Len(cnf[i]) ELSE m

Longest(cnf) == LongestFrom(cnf, 1)

\* 2 ** -len(clause), as a multiple of 2 ** -Longest(cnf)
JwWeight(cnf, clause) == Pow2(Longest(cnf) - Len(clause))

AbsAll(clause) == [j \in 1..Len(clause) |-> Abs(clause[j])]

RECURSIVE JwFrom(_, _, _, _)
JwFrom(cnf, i, sided, literal_weight) ==
  IF i > Len(cnf) THEN literal_weight
  ELSE JwFrom(cnf, i + 1, sided,
              BumpSeq(literal_weight,
                      IF sided THEN AbsAll(cnf[i]) ELSE cnf[i],
                      1, JwWeight(cnf, cnf[i])))

jersolow(cnf) == MaxKey(JwFrom(cnf, 1, FALSE, <<>>))

jersolow_sided(cnf) == MaxKey(JwFrom(cnf, 1, TRUE, <<>>))

\* float('inf'): larger than the length of every clause of cnf
Inf(cnf) == Longest(cnf) + 1

RECURSIVE MomsFrom(_, _, _, _)
MomsFrom(cnf, i, min_size, literal_counts) ==
  IF i > Len(cnf) THEN literal_counts
  ELSE LET clause == cnf[i]
           smaller == Len(clause) < min_size
           ms == IF smaller THEN Len(clause) ELSE min_size
           lc == IF smaller THEN <<>> ELSE literal_counts
       IN MomsFrom(cnf, i + 1, ms,
                   IF Len(clause) = ms THEN BumpSeq(lc, clause, 1, 1) ELSE lc)

moms_heuristic(cnf) == MaxKey(MomsFrom(cnf, 1, Inf(cnf), <<>>))

RECURSIVE DlisFrom(_, _, _, _)
DlisFrom(cnf, i, positive, counts) ==
  IF i > Len(cnf) THEN counts
  ELSE LET clause == cnf[i]
           ks == AbsAll(SelectSeq(clause, LAMBDA l : (l > 0) = positive))
       IN DlisFrom(cnf, i + 1, positive, BumpSeq(counts, ks, 1, 1))

dlis(cnf) ==
  LET positive_counts == DlisFrom(cnf, 1, TRUE, <<>>)
      negative_counts == DlisFrom(cnf, 1, FALSE, <<>>)
      candidates == Keys(positive_counts) \o Keys(negative_counts)
      total(l) == Get(positive_counts, l, 0) + Get(negative_counts, l, 0)
      best == MaxFirst(candidates, [i \in 1..Len(candidates) |-> total(candidates[i])])
  IN IF best.raised THEN best
     ELSE IF Get(positive_counts, best.lit, 0) >= Get(negative_counts, best.lit, 0)
          THEN best ELSE Returned(-best.lit)

\* weights = {1: 10, 2: 5, 3: 1}; weights.get(clause_size, 0)
BohmWeight(clause_size) ==
  CASE clause_size = 1 -> 10 [] clause_size = 2 -> 5 [] clause_size = 3 -> 1 [] OTHER -> 0

RECURSIVE BohmFrom(_, _, _)
BohmFrom(cnf, i, literal_scores) ==
  IF i > Len(cnf) THEN literal_scores
  ELSE BohmFrom(cnf, i + 1, BumpSeq(literal_scores, cnf[i], 1, BohmWeight(Len(cnf[i]))))

bohm_heuristic(cnf) == MaxKey(BohmFrom(cnf, 1, <<>>))

\* select_literal looking at the formula solve was called on, not at cnf
select_literal_stale(s, cnf) ==
  CASE s = 1 -> IF input = <<>> \/ input[1] = <<>> THEN Raised("IndexError")
                ELSE Returned(input[1][1])
    [] s = 2 -> jersolow(input)
    [] s = 3 -> jersolow_sided(input)
    [] s = 4 -> moms_heuristic(input)
    [] s = 5 -> dlis(input)
    [] OTHER -> Raised("TypeError")

\* SatSolver.select_literal; cnf[0][0] raises IndexError on a missing element
select_literal(s, cnf) ==
  CASE s = 1 -> IF cnf = <<>> \/ cnf[1] = <<>> THEN Raised("IndexError")
                ELSE Returned(cnf[1][1])
    [] s = 2 -> jersolow(cnf)
    [] s = 3 -> jersolow_sided(cnf)
    [] s = 4 -> moms_heuristic(cnf)
    [] s = 5 -> dlis(cnf)
    [] OTHER -> Raised("TypeError")

\* ------------------------------------------------------------ the solver
ZeroMetrics ==
  [decisions |-> 0, backtracks |-> 0, conflicts |-> 0,
   propagations |-> 0, unit_clauses_resolved |-> 0]

NoRet == [some |-> FALSE, val |-> <<>>]
NoPrev == [valid |-> FALSE, result |-> <<>>]
NoJw == [called |-> FALSE, cnf |-> <<>>]
NoBcp == [cnf |-> <<>>, unit |-> 0]

\* strategies = {"JW_2_Sided": 3, "DLIS": 5, "MOMS": 4, "BOHMS": 6}
RunnerStrategies == {3, 5, 4, 6}

\* the strategy identifiers a caller passes: those of the constructor's
\* assertion and those of the experiment runner
StrategyIds == (1..MaxStrategy) \cup RunnerStrategies

\* self.metrics[name] += 1, one operator per statement of the source
\* the statement of line 72 left out
CountUnit_onlyResolved(m) == [m EXCEPT !.unit_clauses_resolved = @ + 1]

CountUnit(m) == [m EXCEPT !.unit_clauses_resolved = @ + 1, !.propagations = @ + 1]
CountConflict(m) == [m EXCEPT !.conflicts = @ + 1]
\* the decision is not counted
CountDecision_skipped(m) == m

CountDecision(m) == [m EXCEPT !.decisions = @ + 1]
CountBacktrack(m) == [m EXCEPT !.backtracks = @ + 1]

ValidStrategy(s) == s \in 1..MaxStrategy

Frame(cnf, asg, top) ==
  [cnf |-> cnf, conflict |-> FALSE, asg |-> asg, ua |-> <<>>,
   phase |-> "cascade", lit |-> 0, top |-> top]

Top == stack[Len(stack)]
Pop == SubSeq(stack, 1, Len(stack) - 1)
ReplaceTop(f) == [stack EXCEPT ![Len(stack)] = f]

Cascading == pc = "running" /\ ~ret.some /\ Top.phase = "cascade"

Init ==
  /\ pc = "new"
  /\ strategy = 0
  /\ metrics = ZeroMetrics
  /\ dflt = <<>>
  /\ stack = <<>>
  /\ ret = NoRet
  /\ input = <<>>
  /\ inputStrategy = 0
  /\ result = <<>>
  /\ calls = 0
  /\ callMetrics = ZeroMetrics
  /\ prev = NoPrev
  /\ error = ""
  /\ bcpIn = NoBcp
  /\ bcpOut = NoConflict(<<>>)
  /\ out = <<>>
  /\ report = ""
  /\ ucIn = <<>>
  /\ ucOut = Cascaded(<<>>, <<>>)
  /\ alt = Cascaded(<<>>, <<>>)
  /\ jwIn = NoJw
  /\ jwOut = Returned(0)

\* SatSolver(strategy=s): the assertion, then the fields
Construct(s) ==
  /\ pc \in {"new", "returned"}
  /\ IF ValidStrategy(s)
     THEN /\ pc' = "ready"
          /\ strategy' = s
          /\ metrics' = ZeroMetrics
          /\ error' = error
     ELSE /\ pc' = "raised"
          /\ error' = "AssertionError"
          /\ UNCHANGED <<strategy, metrics>>
  /\ UNCHANGED <<dflt, stack, ret, input, inputStrategy, result, calls,
                 callMetrics, prev, bcpIn, bcpOut, out, report, ucIn, ucOut, alt, jwIn, jwOut>>

\* solver.solve(cnf): a top-level call, `assignments` bound to the default list
CallSolve(cnf) ==
  /\ pc \in {"ready", "returned"}
  /\ calls < MaxCalls
  /\ pc' = "running"
  /\ stack' = <<Frame(cnf, dflt, TRUE)>>
  /\ input' = cnf
  /\ inputStrategy' = strategy
  /\ result' = <<>>
  /\ calls' = calls + 1
  /\ callMetrics' = ZeroMetrics
  /\ prev' = IF calls > 0 /\ input = cnf /\ inputStrategy = strategy
             THEN [valid |-> TRUE, result |-> result] ELSE NoPrev
  /\ UNCHANGED <<strategy, metrics, dflt, ret, error, bcpIn, bcpOut, out, report, ucIn, ucOut, alt, jwIn, jwOut>>

\* one iteration of the while loop of get_unit_clauses
CascadeStep ==
  /\ Cascading
  /\ ~Top.conflict
  /\ UnitClauses(Top.cnf) # <<>>
  /\ LET unit == UnitClauses(Top.cnf)[1][1]
         r == propagate_unit(Top.cnf, unit)
     IN /\ metrics' = CountUnit(metrics)
        /\ callMetrics' = CountUnit(callMetrics)
        /\ stack' = ReplaceTop(
             IF r.conflict
             THEN [Top EXCEPT !.conflict = TRUE, !.cnf = <<>>, !.ua = <<>>]
             ELSE [Top EXCEPT !.cnf = r.cnf, !.ua = Append(@, unit)])
  /\ UNCHANGED <<pc, strategy, dflt, ret, input, inputStrategy, result, calls,
                 prev, error, bcpIn, bcpOut, out, report, ucIn, ucOut, alt, jwIn, jwOut>>

\* the innermost call returns v: to its caller, or out of the top-level call
Return(v) ==
  /\ stack' = Pop
  /\ IF Len(stack) = 1
     THEN /\ pc' = "returned"
          /\ result' = v
          /\ ret' = NoRet
     ELSE /\ ret' = [some |-> TRUE, val |-> v]
          /\ UNCHANGED <<pc, result>>

\* assignments += unit_assignments: in place, so on the default list at top level
Extended(f) == f.asg \o f.ua

\* cascade ended in CONFLICT: count it, return []
ReturnConflict ==
  /\ Cascading
  /\ Top.conflict
  /\ metrics' = CountConflict(metrics)
  /\ callMetrics' = CountConflict(callMetrics)
  /\ Return(<<>>)
  /\ UNCHANGED <<strategy, dflt, input, inputStrategy, calls, prev, error,
                 bcpIn, bcpOut, out, report, ucIn, ucOut, alt, jwIn, jwOut>>

\* cascade left no clause: return assignments
ReturnSat ==
  /\ Cascading
  /\ ~Top.conflict
  /\ Top.cnf = <<>>
  /\ dflt' = IF Top.top THEN Extended(Top) ELSE dflt
  /\ Return(Extended(Top))
  /\ UNCHANGED <<strategy, metrics, input, inputStrategy, calls, callMetrics,
                 prev, error, bcpIn, bcpOut, out, report, ucIn, ucOut, alt, jwIn, jwOut>>

\* Recurse with a propagate_unit that simplifies the caller's formula in place
Recurse_inPlace(f, l) ==
  LET r == propagate_unit(f.cnf, l) IN
  IF r.conflict
  THEN /\ pc' = "raised"
       /\ error' = "TypeError"
       /\ stack' = ReplaceTop(f)
  ELSE /\ stack' = Append(ReplaceTop([f EXCEPT !.cnf = r.cnf]),
                          Frame(r.cnf, Append(f.asg, l), FALSE))
       /\ UNCHANGED <<pc, error>>

\* solve(propagate_unit(cnf, l), assignments + [l]); iterating -1 is a TypeError
Recurse(f, l) ==
  LET r == propagate_unit(f.cnf, l) IN
  IF r.conflict
  THEN /\ pc' = "raised"
       /\ error' = "TypeError"
       /\ stack' = ReplaceTop(f)
  ELSE /\ stack' = Append(ReplaceTop(f), Frame(r.cnf, Append(f.asg, l), FALSE))
       /\ UNCHANGED <<pc, error>>

\* cascade left clauses and no unit clause: count a decision, select, branch
Decide ==
  /\ Cascading
  /\ ~Top.conflict
  /\ Top.cnf # <<>>
  /\ UnitClauses(Top.cnf) = <<>>
  /\ dflt' = IF Top.top THEN Extended(Top) ELSE dflt
  /\ metrics' = CountDecision(metrics)
  /\ callMetrics' = CountDecision(callMetrics)
  /\ LET sel == select_literal(strategy, Top.cnf)
         f == [Top EXCEPT !.asg = Extended(Top), !.ua = <<>>]
     IN IF sel.raised
        THEN /\ pc' = "raised"
             /\ error' = sel.exc
             /\ stack' = ReplaceTop(f)
        ELSE Recurse([f EXCEPT !.phase = "first", !.lit = sel.lit], sel.lit)
  /\ UNCHANGED <<strategy, ret, input, inputStrategy, result, calls, prev,
                 bcpIn, bcpOut, out, report, ucIn, ucOut, alt, jwIn, jwOut>>

\* Backtrack without the test `if not result`
Backtrack_eager ==
  /\ pc = "running"
  /\ ret.some
  /\ Top.phase = "first"
  /\ metrics' = CountBacktrack(metrics)
  /\ callMetrics' = CountBacktrack(callMetrics)
  /\ ret' = NoRet
  /\ Recurse([Top EXCEPT !.phase = "second"], -Top.lit)
  /\ UNCHANGED <<strategy, dflt, input, inputStrategy, result, calls, prev,
                 bcpIn, bcpOut, out, report, ucIn, ucOut, alt, jwIn, jwOut>>

\* the first branch returned []: count a backtrack, branch on the negation
Backtrack ==
  /\ pc = "running"
  /\ ret.some
  /\ Top.phase = "first"
  /\ ret.val = <<>>
  /\ metrics' = CountBacktrack(metrics)
  /\ callMetrics' = CountBacktrack(callMetrics)
  /\ ret' = NoRet
  /\ Recurse([Top EXCEPT !.phase = "second"], -Top.lit)
  /\ UNCHANGED <<strategy, dflt, input, inputStrategy, result, calls, prev,
                 bcpIn, bcpOut, out, report, ucIn, ucOut, alt, jwIn, jwOut>>

\* return result: of the first branch when it is not [], else of the second
ReturnUp ==
  /\ pc = "running"
  /\ ret.some
  /\ Top.phase = "second" \/ ret.val # <<>>
  /\ Return(ret.val)
  /\ UNCHANGED <<strategy, metrics, dflt, input, inputStrategy, calls,
                 callMetrics, prev, error, bcpIn, bcpOut, out, report, ucIn, ucOut, alt, jwIn, jwOut>>

\* propagate_unit called on its own, on any formula and literal
CallPropagate(cnf, unit) ==
  /\ pc = "new"
  /\ bcpIn = NoBcp
  /\ bcpIn' = [cnf |-> cnf, unit |-> unit]
  /\ bcpOut' = propagate_unit(cnf, unit)
  /\ UNCHANGED <<pc, strategy, metrics, dflt, stack, ret, input, inputStrategy,
                 result, calls, callMetrics, prev, error, out, report, ucIn, ucOut, alt, jwIn, jwOut>>

\* ------------------------------------------------------------ the drivers
\* SAT.py and main.py run one solve call per process on SatSolver of
\* solver/solver_class.py: the search of og_solver.py without the counters,
\* strategies 1..3, solve returning the list alone.

\* s with x put behind the elements whose abs is not larger (a stable insertion)
RECURSIVE InsertByAbs(_, _)
InsertByAbs(s, x) ==
  IF s = <<>> THEN <<x>>
  ELSE IF Abs(s[Len(s)]) <= Abs(x) THEN Append(s, x)
       ELSE Append(InsertByAbs(SubSeq(s, 1, Len(s) - 1), x), s[Len(s)])

\* sorted(assignment, key=abs)
RECURSIVE SortedByAbs(_)
SortedByAbs(s) ==
  IF s = <<>> THEN <<>>
  ELSE InsertByAbs(SortedByAbs(SubSeq(s, 1, Len(s) - 1)), s[Len(s)])

DriverDone == pc = "returned" /\ calls = 1 /\ strategy <= DriverMaxStrategy

\* SAT.py: the solution line into the .out file, then the verdict
WriteSolution ==
  /\ DriverDone
  /\ out' = IF result # <<>> THEN Append(SortedByAbs(result), 0) ELSE <<>>
  /\ report' = IF result # <<>> THEN "SAT" ELSE "UNSAT"
  /\ pc' = "exited"
  /\ UNCHANGED <<strategy, metrics, dflt, stack, ret, input, inputStrategy,
                 result, calls, callMetrics, prev, error, bcpIn, bcpOut,
                 ucIn, ucOut, alt, jwIn, jwOut>>

\* main.py: the verdict, then the list sorted in place and printed
PrintSolution ==
  /\ DriverDone
  /\ out' = IF result # <<>> THEN SortedByAbs(result) ELSE <<>>
  /\ report' = IF result # <<>> THEN "SAT" ELSE "UNSAT"
  /\ dflt' = IF result # <<>> /\ result = dflt THEN SortedByAbs(dflt) ELSE dflt
  /\ result' = SortedByAbs(result)
  /\ pc' = "exited"
  /\ UNCHANGED <<strategy, metrics, stack, ret, input, inputStrategy,
                 calls, callMetrics, prev, error, bcpIn, bcpOut,
                 ucIn, ucOut, alt, jwIn, jwOut>>

\* -------------------------------------------- get_unit_clauses on its own
CascadeLits == {l \in (-CascadeVars)..CascadeVars : l # 0}

CascadeFormulas ==
  SeqsUpTo({c \in SeqsUpTo(CascadeLits, MaxClauseLen) : Distinct(c)}, CascadeClauses)

\* solver.get_unit_clauses(cnf) on a solver just constructed
CallCascade(cnf) ==
  /\ pc = "ready"
  /\ calls = 0
  /\ pc' = "cascaded"
  /\ ucIn' = cnf
  /\ ucOut' = get_unit_clauses(cnf)
  /\ alt' = Cascaded(cnf, <<>>)
  /\ metrics' = [metrics EXCEPT !.unit_clauses_resolved = @ + ForcedCount(cnf),
                                 !.propagations = @ + ForcedCount(cnf)]
  /\ UNCHANGED <<strategy, dflt, stack, ret, input, inputStrategy, result, calls,
                 callMetrics, prev, error, bcpIn, bcpOut, out, report,
                 jwIn, jwOut>>

\* one iteration of the loop of get_unit_clauses with the unit clause chosen
\* freely: clause i of the formula the cascade has reached
AnyOrderStep(i) ==
  /\ pc = "cascaded"
  /\ ~alt.conflict
  /\ i \in 1..Len(alt.cnf)
  /\ Len(alt.cnf[i]) = 1
  /\ LET unit == alt.cnf[i][1]
         r == propagate_unit(alt.cnf, unit)
     IN alt' = IF r.conflict THEN CascadeConflict
               ELSE Cascaded(r.cnf, Append(alt.asg, unit))
  /\ UNCHANGED <<pc, strategy, metrics, dflt, stack, ret, input, inputStrategy,
                 result, calls, callMetrics, prev, error, bcpIn, bcpOut, out,
                 report, ucIn, ucOut, jwIn, jwOut>>

NextCascade ==
  \/ \E s \in StrategyIds : Construct(s)
  \/ pc = "ready" /\ \E cnf \in CascadeFormulas : CallCascade(cnf)
  \/ pc = "cascaded" /\ \E i \in 1..CascadeClauses : AnyOrderStep(i)

SpecCascade == Init /\ [][NextCascade]_vars

\* ---------------------------------------------- jersolow_sided on its own
\* jersolow_sided(cnf), on the formulas of the get_unit_clauses harness
CallJersolowSided(cnf) ==
  /\ pc = "new"
  /\ ~jwIn.called
  /\ jwIn' = [called |-> TRUE, cnf |-> cnf]
  /\ jwOut' = jersolow_sided(cnf)
  /\ UNCHANGED <<pc, strategy, metrics, dflt, stack, ret, input, inputStrategy,
                 result, calls, callMetrics, prev, error, bcpIn, bcpOut, out,
                 report, ucIn, ucOut, alt>>

NextJw == ~jwIn.called /\ \E cnf \in CascadeFormulas : CallJersolowSided(cnf)

SpecJw == Init /\ [][NextJw]_vars

Next ==
  \/ \E s \in StrategyIds : Construct(s)
  \/ \E cnf \in Formulas : CallSolve(cnf)
  \/ CascadeStep
  \/ ReturnConflict
  \/ ReturnSat
  \/ Decide
  \/ Backtrack
  \/ ReturnUp
  \/ WriteSolution
  \/ PrintSolution

Spec == Init /\ [][Next]_vars

NextBcp == \E cnf \in Formulas, unit \in Lits : CallPropagate(cnf, unit)

SpecBcp == Init /\ [][NextBcp]_vars

\* ================================================================ claims
AllVars == 1..NumVars

\* the literal l is true when exactly the variables of T are true
TrueUnder(T, l) == IF l > 0 THEN l \in T ELSE (-l) \notin T

Satisfiable(cnf) ==
  \E T \in SUBSET AllVars :
    \A i \in 1..Len(cnf) : \E j \in 1..Len(cnf[i]) : TrueUnder(T, cnf[i][j])

InSeq(sq, x) == \E j \in 1..Len(sq) : sq[j] = x

\* what the callers make of the returned list: `if assignment`, bool(assignment)
ReportsSat(assignment) == assignment # <<>>

\* C1: whenever a top-level solve call returns a non-empty literal sequence,
\* every clause of the formula it was called on contains a literal of it.
C1_Soundness ==
  (pc = "returned" /\ result # <<>>) =>
    \A i \in 1..Len(input) : \E j \in 1..Len(input[i]) : InSeq(result, input[i][j])

\* C1 witness: a non-empty result found after a failed first branch.
C1_Witness ==
  /\ pc = "returned"
  /\ result # <<>>
  /\ Len(input) = 2
  /\ callMetrics.backtracks >= 1

\* C2 (as claimed): a top-level solve call returns the empty sequence exactly
\* when its formula is unsatisfiable.
C2_EmptyIffUnsat ==
  pc = "returned" => ((result = <<>>) <=> ~Satisfiable(input))

\* C3 (as claimed, the part a finite run refutes): a solve call never ends
\* without a SAT or UNSAT result, that is, never in an exception.
C3_SolveEndsWithResult ==
  ~(pc = "raised" /\ calls > 0 /\ error # "AssertionError")

\* C4 (as claimed): solving the formula without clauses reports SAT, with an
\* empty assignment and no decision.
C4_EmptyFormulaIsSat ==
  (pc = "returned" /\ input = <<>>) =>
    /\ ReportsSat(result)
    /\ result = <<>>
    /\ callMetrics.decisions = 0

\* C5 (as claimed): a call with the formula and strategy of the call before
\* it returns the literal sequence that call returned.
C5_SameCallSameResult ==
  (pc = "returned" /\ prev.valid) => result = prev.result

\* C6 (as claimed): the record a top-level call returns counts the events of
\* that call only.
C6_MetricsOfThisCall ==
  pc = "returned" => metrics = callMetrics

NonNegative(m) ==
  /\ m.decisions >= 0
  /\ m.backtracks >= 0
  /\ m.conflicts >= 0
  /\ m.propagations >= 0
  /\ m.unit_clauses_resolved >= 0

NoDecrease(m, n) ==
  /\ n.decisions >= m.decisions
  /\ n.backtracks >= m.backtracks
  /\ n.conflicts >= m.conflicts
  /\ n.propagations >= m.propagations
  /\ n.unit_clauses_resolved >= m.unit_clauses_resolved

\* C7: the counters are never negative, backtracks never exceeds decisions,
\* and no step of a solve call (its start and its return included) lowers a
\* counter.
C7_MetricsSanity ==
  /\ [](NonNegative(metrics) /\ metrics.backtracks <= metrics.decisions)
  /\ [][(pc = "running" \/ pc' = "running") => NoDecrease(metrics, metrics')]_vars

\* C7 witness: a call that decided, backtracked, hit a conflict and propagated.
C7_Witness ==
  /\ pc = "returned"
  /\ metrics.decisions >= 1
  /\ metrics.backtracks >= 1
  /\ metrics.conflicts >= 1
  /\ metrics.propagations >= 1

\* some clause contains -unit, does not contain unit and has no other literal
HasEmptiedClause(cnf, unit) ==
  \E i \in 1..Len(cnf) :
    /\ Contains(cnf[i], -unit)
    /\ ~Contains(cnf[i], unit)
    /\ \A j \in 1..Len(cnf[i]) : cnf[i][j] = -unit

\* sq without the elements equal to x, in order
Without(sq, x) ==
  LET keep == {j \in 1..Len(sq) : sq[j] # x}
      nth(n) == CHOOSE j \in keep : Cardinality({k \in keep : k <= j}) = n
  IN [n \in 1..Cardinality(keep) |-> sq[nth(n)]]

\* the clauses of cnf that do not contain unit, in order, each without -unit
Simplified(cnf, unit) ==
  LET keep == {i \in 1..Len(cnf) : ~Contains(cnf[i], unit)}
      nth(n) == CHOOSE i \in keep : Cardinality({k \in keep : k <= i}) = n
  IN [n \in 1..Cardinality(keep) |-> Without(cnf[nth(n)], -unit)]

\* C8: propagate_unit returns CONFLICT exactly when a clause is emptied, and
\* otherwise the clauses without the literal, in order, with its negation removed.
C8_BcpCorrect ==
  bcpIn # NoBcp =>
    /\ bcpOut.conflict <=> HasEmptiedClause(bcpIn.cnf, bcpIn.unit)
    /\ ~bcpOut.conflict => bcpOut.cnf = Simplified(bcpIn.cnf, bcpIn.unit)

\* C8 witness: one clause dropped, one clause shortened by the negated literal.
C8_Witness ==
  /\ bcpIn # NoBcp
  /\ ~bcpOut.conflict
  /\ Len(bcpIn.cnf) = 2
  /\ Contains(bcpIn.cnf[1], bcpIn.unit)
  /\ Contains(bcpIn.cnf[2], -bcpIn.unit)
  /\ bcpOut.cnf = <<Without(bcpIn.cnf[2], -bcpIn.unit)>>

HasEmptyClause(cnf) == \E i \in 1..Len(cnf) : cnf[i] = <<>>

\* C9 (as claimed): a call on a formula with a zero-literal clause does not
\* end in an exception and returns the empty sequence.
C9_EmptyClauseIsUnsat ==
  (calls > 0 /\ HasEmptyClause(input)) =>
    /\ ~(pc = "raised" /\ error # "AssertionError")
    /\ pc = "returned" => result = <<>>

\* C10 (as claimed): constructing a solver never fails on a strategy
\* identifier of the experiment runner, the one for BOHM included.
C10_RunnerStrategiesConstruct ==
  ~(pc = "raised" /\ error = "AssertionError")

\* the literals of sq, each once, as a set
LitsOf(sq) == {sq[j] : j \in 1..Len(sq)}

AscendingByVar(sq) == \A i, j \in 1..Len(sq) : i < j => Abs(sq[i]) <= Abs(sq[j])

\* C11 (as claimed): a driver that has finished wrote, for a satisfiable
\* formula, the literals of the assignment in ascending order of variable
\* followed by 0 and reported SAT, and for an unsatisfiable formula wrote
\* nothing and reported UNSAT.
C11_DriverOutput ==
  pc = "exited" =>
    IF Satisfiable(input)
    THEN /\ report = "SAT"
         /\ out # <<>>
         /\ out[Len(out)] = 0
         /\ AscendingByVar(SubSeq(out, 1, Len(out) - 1))
         /\ LitsOf(SubSeq(out, 1, Len(out) - 1)) = LitsOf(result)
    ELSE /\ report = "UNSAT"
         /\ out = <<>>

\* a step that enters a recursive call
Enters == pc = "running" /\ pc' = "running" /\ Len(stack') = Len(stack) + 1

\* the frame of the caller and of the call just entered
CallerAfter == stack'[Len(stack)]
CalleeAfter == stack'[Len(stack')]

\* a step that only hands a value up: no frame changed, nothing counted
OnlyReturns ==
  /\ Len(stack') = Len(stack) - 1
  /\ stack' = SubSeq(stack, 1, Len(stack) - 1)
  /\ metrics' = metrics
  /\ IF Len(stack) = 1 THEN result' = ret.val ELSE ret' = ret

\* C12: a call that branches enters the branch on L first, from a frame that
\* has explored nothing; every call below the innermost one waits for a
\* branch, so a branch is explored to its end before anything else happens;
\* the branch on -L is entered only from a call whose branch on L returned
\* []; and once a branch has returned a non-empty list every step only hands
\* that list up, with no BCP, cascade or heuristic step in any enclosing call.
C12_BranchOrder ==
  /\ [](pc = "running" =>
          /\ \A i \in 1..(Len(stack) - 1) : stack[i].phase \in {"first", "second"}
          /\ Top.phase = "cascade" <=> ~ret.some)
  /\ [][/\ Enters =>
             \/ /\ Top.phase = "cascade"
                /\ CallerAfter.phase = "first"
                /\ CalleeAfter.asg = Append(CallerAfter.asg, CallerAfter.lit)
                /\ CalleeAfter.cnf = propagate_unit(Top.cnf, CallerAfter.lit).cnf
             \/ /\ Top.phase = "first"
                /\ ret.some /\ ret.val = <<>>
                /\ CallerAfter.phase = "second"
                /\ CallerAfter.lit = Top.lit
                /\ CalleeAfter.asg = Append(Top.asg, -Top.lit)
                /\ CalleeAfter.cnf = propagate_unit(Top.cnf, -Top.lit).cnf
        /\ (pc = "running" /\ ret.some /\ ret.val # <<>>) => OnlyReturns]_vars

\* the branch on L returned [] and the branch on -L has returned a solution
C12_Witness ==
  /\ pc = "running"
  /\ Top.phase = "second"
  /\ ret.some
  /\ ret.val # <<>>

\* the variables a formula mentions
VarsOf(cnf) == {Abs(cnf[i][j]) : <<i, j>> \in {<<i, j>> \in (1..Len(cnf)) \X (1..MaxClauseLen) : j <= Len(cnf[i])}}

NoVarTwice(sq) == \A i, j \in 1..Len(sq) : i # j => Abs(sq[i]) # Abs(sq[j])

\* C13 (as claimed): the list a call returns is the chain of decision and
\* cascade literals along the successful path of that call, so it names no
\* variable twice, neither with one polarity nor with both, and only
\* variables of the formula given.
C13_ResultIsPath ==
  pc = "returned" =>
    /\ NoVarTwice(result)
    /\ \A i \in 1..Len(result) : Abs(result[i]) \in VarsOf(input)

\* A strictly inside B
FewerVars(A, B) == A \subseteq B /\ A # B

\* C14: the literal the heuristic returns is on a variable of the formula the
\* cascade left; the cascade adds no variable; so the formula of every
\* recursive call mentions strictly fewer variables than the formula of its
\* caller, the formula of the outermost call mentions only variables of the
\* input, and the calls nested inside the outermost one are never more than
\* the variables of the input.
C14_FewerVariables ==
  /\ [](pc = "running" =>
          /\ VarsOf(stack[1].cnf) \subseteq VarsOf(input)
          /\ \A i \in 1..(Len(stack) - 1) :
               /\ Abs(stack[i].lit) \in VarsOf(stack[i].cnf)
               /\ FewerVars(VarsOf(stack[i + 1].cnf), VarsOf(stack[i].cnf))
          /\ Len(stack) - 1 <= Cardinality(VarsOf(input)))
  /\ [][(pc = "running" /\ pc' = "running" /\ Len(stack') = Len(stack)) =>
          VarsOf(Top'.cnf) \subseteq VarsOf(Top.cnf)]_vars

\* two calls nested inside the outermost one, on an input of two variables
C14_Witness ==
  /\ pc = "running"
  /\ Len(stack) = 3
  /\ Cardinality(VarsOf(input)) = 2

\* C15: while a call runs, the formula it was called on stays as it was given;
\* a step changes the formula of no call that has branched, and entering a
\* branch leaves the caller's post-cascade formula as it was; so the branch on
\* -L is computed by BCP from the very formula the branch on L was computed
\* from.
C15_CopyOnBranch ==
  [][pc = "running" =>
       /\ input' = input
       /\ \A i \in 1..Len(stack) :
            (i <= Len(stack') /\ (i < Len(stack) \/ stack[i].phase # "cascade")) =>
              stack'[i].cnf = stack[i].cnf
       /\ Enters =>
            /\ CallerAfter.cnf = Top.cnf
            /\ CalleeAfter.cnf = propagate_unit(Top.cnf,
                 IF Top.phase = "first" THEN -Top.lit ELSE CallerAfter.lit).cnf]_vars

\* the branch on -L entered after the branch on L failed, on a formula that
\* BCP on L does simplify
C15_Witness ==
  /\ pc = "running"
  /\ Len(stack) >= 2
  /\ LET caller == stack[Len(stack) - 1] IN
       /\ caller.phase = "second"
       /\ Top.phase = "cascade"
       /\ Top.cnf = propagate_unit(caller.cnf, -caller.lit).cnf
       /\ propagate_unit(caller.cnf, caller.lit).cnf # caller.cnf
       /\ Top.cnf # propagate_unit(caller.cnf, caller.lit).cnf

HasUnitClause(cnf) == \E i \in 1..Len(cnf) : Len(cnf[i]) = 1

\* what the cascade of the innermost call has come to an end with
CascadeEnded == Cascading /\ (Top.conflict \/ Top.cnf = <<>> \/ ~HasUnitClause(Top.cnf))

\* C16: the step that leaves the cascade of a call (by returning or by asking
\* the heuristic) is taken when the cascade reported CONFLICT, or left the
\* empty formula, or left a non-empty formula with no clause of length 1; and
\* the heuristic is asked (a decision is counted) only in the third case.
C16_CascadeFixpoint ==
  [][/\ (Cascading /\ metrics'.propagations = metrics.propagations) => CascadeEnded
     /\ metrics'.decisions > metrics.decisions =>
          /\ Cascading
          /\ ~Top.conflict
          /\ Top.cnf # <<>>
          /\ ~HasUnitClause(Top.cnf)]_vars

\* a cascade that forced a literal and left clauses to decide on
C16_Witness ==
  /\ Cascading
  /\ Len(Top.ua) >= 1
  /\ Top.cnf # <<>>
  /\ \A i \in 1..Len(Top.cnf) : Len(Top.cnf[i]) >= 2
  /\ ~Top.conflict

\* the literal of the first clause of length 1
FirstUnit(cnf) ==
  cnf[CHOOSE i \in 1..Len(cnf) :
        Len(cnf[i]) = 1 /\ \A j \in 1..(i - 1) : Len(cnf[j]) # 1][1]

\* the cascade of the innermost call is about to force a literal
Forcing == Cascading /\ ~Top.conflict /\ HasUnitClause(Top.cnf)

\* C17: propagations and unit_clauses_resolved are equal in every state; a
\* step of a call that forces a literal applies BCP on it, raises each of the
\* two counters by exactly one and either appends the literal to the forced
\* literals or ends the cascade in CONFLICT; no other step of a call changes
\* either counter, so both count the BCP applications of the cascades; and
\* solve([[1], [-1, 2]]) ends with both at 2 or more.
C17_CascadeCounters ==
  /\ [](/\ metrics.propagations = metrics.unit_clauses_resolved
        /\ callMetrics.propagations = callMetrics.unit_clauses_resolved
        /\ (pc = "returned" /\ input = <<<<1>>, <<-1, 2>>>>) =>
             /\ callMetrics.unit_clauses_resolved >= 2
             /\ metrics.unit_clauses_resolved >= 2)
  /\ [][pc = "running" =>
          IF Forcing
          THEN /\ metrics'.propagations = metrics.propagations + 1
               /\ metrics'.unit_clauses_resolved = metrics.unit_clauses_resolved + 1
               /\ LET r == propagate_unit(Top.cnf, FirstUnit(Top.cnf)) IN
                    IF r.conflict
                    THEN Top'.conflict
                    ELSE /\ Top'.cnf = r.cnf
                         /\ Top'.ua = Append(Top.ua, FirstUnit(Top.cnf))
          ELSE /\ metrics'.propagations = metrics.propagations
               /\ metrics'.unit_clauses_resolved = metrics.unit_clauses_resolved]_vars

\* solve([[1], [-1, 2]]) has returned [1, 2] after two forced literals
C17_Witness ==
  /\ pc = "returned"
  /\ calls = 1
  /\ input = <<<<1>>, <<-1, 2>>>>
  /\ result = <<1, 2>>
  /\ metrics.propagations = 2
  /\ metrics.unit_clauses_resolved = 2

\* how often the clause occurs in the formula
Occurrences(cnf, clause) == Cardinality({i \in 1..Len(cnf) : cnf[i] = clause})

\* the same clauses, each as often, in whatever order
SameClauses(a, b) ==
  /\ Len(a) = Len(b)
  /\ \A i \in 1..Len(a) : Occurrences(a, a[i]) = Occurrences(b, a[i])

\* the cascade that takes unit clauses in any order has nothing left to do
AltEnded == alt.conflict \/ ~HasUnitClause(alt.cnf)

\* C18: whatever the order in which the unit clauses are taken, the cascade
\* ends in CONFLICT exactly when get_unit_clauses (which takes the first unit
\* clause each time) returns CONFLICT, and otherwise ends with the clauses
\* get_unit_clauses returns and with the same set of forced literals.
C18_CascadeConfluence ==
  (pc = "cascaded" /\ AltEnded) =>
    /\ alt.conflict = ucOut.conflict
    /\ ~alt.conflict =>
         /\ SameClauses(alt.cnf, ucOut.cnf)
         /\ LitsOf(alt.asg) = LitsOf(ucOut.asg)

\* a cascade of three forced literals, on a formula of three non-empty
\* clauses, that took them in another order than get_unit_clauses does
C18_Witness ==
  /\ pc = "cascaded"
  /\ AltEnded
  /\ ~alt.conflict
  /\ Len(alt.asg) = 3
  /\ alt.asg # ucOut.asg
  /\ \A i \in 1..Len(ucIn) : ucIn[i] # <<>>

\* C19 (as claimed): in the record a top-level call returns, decisions is the
\* number of calls of its tree that asked the heuristic, backtracks the
\* number of calls whose first branch returned [], conflicts the number of
\* calls whose cascade ended in CONFLICT; conflicts is 1 for [[1], [-1]].
C19_CountersOfTheTree ==
  pc = "returned" =>
    /\ metrics.decisions = callMetrics.decisions
    /\ metrics.backtracks = callMetrics.backtracks
    /\ metrics.conflicts = callMetrics.conflicts
    /\ input = <<<<1>>, <<-1>>>> => metrics.conflicts = 1

\* how often the literal occurs in the formula
LitCount(cnf, l) ==
  Cardinality({p \in (1..Len(cnf)) \X (1..MaxClauseLen) :
                 p[2] <= Len(cnf[p[1]]) /\ cnf[p[1]][p[2]] = l})

\* the larger of the counts of the two literals of variable v
SingleCount(cnf, v) ==
  IF LitCount(cnf, v) >= LitCount(cnf, -v) THEN LitCount(cnf, v) ELSE LitCount(cnf, -v)

\* C20 (as claimed): under strategy 5 the literal a call branches on is on a
\* variable whose larger single-polarity count in the post-cascade formula
\* is the largest of all variables, positive when the variable occurs
\* positively at least as often as negatively and negative otherwise.
C20_DlisLargestSingleCount ==
  (pc = "running" /\ strategy = 5) =>
    \A i \in 1..Len(stack) :
      stack[i].phase \in {"first", "second"} =>
        LET cnf == stack[i].cnf
            v == Abs(stack[i].lit)
        IN /\ \A w \in VarsOf(cnf) : SingleCount(cnf, v) >= SingleCount(cnf, w)
           /\ stack[i].lit > 0 <=> LitCount(cnf, v) >= LitCount(cnf, -v)

\* the sum of 2 ** -len(clause) over the clauses from the i-th on that hold
\* variable v in either polarity, as a multiple of 2 ** -Longest(cnf)
RECURSIVE ClauseSumFrom(_, _, _)
ClauseSumFrom(cnf, v, i) ==
  IF i > Len(cnf) THEN 0
  ELSE (IF Contains(cnf[i], v) \/ Contains(cnf[i], -v)
        THEN Pow2(Longest(cnf) - Len(cnf[i])) ELSE 0)
       + ClauseSumFrom(cnf, v, i + 1)

ClauseSum(cnf, v) == ClauseSumFrom(cnf, v, 1)

\* C21 (as claimed): on a non-empty formula jersolow_sided returns a positive
\* literal on a variable of the formula, and no variable of the formula has a
\* larger sum of 2 ** -len(clause) over the clauses that hold it in either
\* polarity; on [[1, 2], [1, 3], [2]] it does not return variable 3.
C21_TwoSidedJW ==
  (jwIn.called /\ jwIn.cnf # <<>>) =>
    /\ ~jwOut.raised
    /\ jwOut.lit > 0
    /\ jwOut.lit \in VarsOf(jwIn.cnf)
    /\ \A w \in VarsOf(jwIn.cnf) : ClauseSum(jwIn.cnf, w) <= ClauseSum(jwIn.cnf, jwOut.lit)
    /\ jwIn.cnf = <<<<1, 2>>, <<1, 3>>, <<2>>>> => jwOut.lit # 3

====
